---------------------------- MODULE Spec2Model ----------------------------
(***************************************************************************)
(* Log Viewer (src/src/log_viewer/main.py): the follow session of          *)
(* LogViewerWindow (_toggle_follow, _follow_thread), the GLib main loop    *)
(* that runs the callbacks queued with GLib.idle_add, the batch loader     *)
(* (_load_logs) and the record store filled by _add_line.                  *)
(*                                                                         *)
(* A text is a sequence of one-character strings.  A line read from a      *)
(* follow subprocess is a record [text, src, seq]: its text, the process   *)
(* that emitted it and its position in that process's output.              *)
(***************************************************************************)
EXTENDS Integers, Sequences, FiniteSets, TLC

\* ------------------------------------------------------------------ bounds
\* Follow sessions (toggle-on events, hence reader threads and processes).
MaxSessions == 2
\* Lines one follow subprocess emits.
MaxEmit == 2
\* Batch loads (clicks on Load).
MaxLoads == 2
\* Characters of a batch command's standard output.
MaxOut == 3
\* Words of a line given to _add_line directly.
MaxWords == 2

\* ------------------------------------------------------------------- texts
\* str.strip() removes these at both ends.
IsSpace(c) == c \in {" ", "\n", "\t", "\r"}

RECURSIVE LStrip(_)
LStrip(s) == IF s = <<>> THEN s
             ELSE IF IsSpace(Head(s)) THEN LStrip(Tail(s)) ELSE s

RECURSIVE RStrip(_)
RStrip(s) == IF s = <<>> THEN s
             ELSE IF IsSpace(s[Len(s)]) THEN RStrip(SubSeq(s, 1, Len(s) - 1)) ELSE s

\* s.strip()
Strip(s) == RStrip(LStrip(s))

\* The index of the first sep in s at or after i, 0 if there is none.
RECURSIVE FindFrom(_, _, _)
FindFrom(s, sep, i) == IF i > Len(s) THEN 0
                       ELSE IF s[i] = sep THEN i ELSE FindFrom(s, sep, i + 1)

\* s.split(sep, n): at most n splits at the one-character separator sep;
\* n < 0 splits at every one.
RECURSIVE SplitMax(_, _, _)
SplitMax(s, sep, n) ==
    LET i == FindFrom(s, sep, 1)
    IN  IF n = 0 \/ i = 0 THEN <<s>>
        ELSE <<SubSeq(s, 1, i - 1)>> \o SplitMax(SubSeq(s, i + 1, Len(s)), sep, n - 1)

\* s.split(sep)
Split(s, sep) == SplitMax(s, sep, -1)

\* str.lower() on one character.
LowerChar(c) ==
    CASE c = "A" -> "a" [] c = "B" -> "b" [] c = "C" -> "c" [] c = "D" -> "d"
      [] c = "E" -> "e" [] c = "F" -> "f" [] c = "G" -> "g" [] c = "H" -> "h"
      [] c = "I" -> "i" [] c = "J" -> "j" [] c = "K" -> "k" [] c = "L" -> "l"
      [] c = "M" -> "m" [] c = "N" -> "n" [] c = "O" -> "o" [] c = "P" -> "p"
      [] c = "Q" -> "q" [] c = "R" -> "r" [] c = "S" -> "s" [] c = "T" -> "t"
      [] c = "U" -> "u" [] c = "V" -> "v" [] c = "W" -> "w" [] c = "X" -> "x"
      [] c = "Y" -> "y" [] c = "Z" -> "z" [] OTHER -> c

\* s.lower()
Lower(s) == [i \in 1..Len(s) |-> LowerChar(s[i])]

\* kw in s
Contains(s, kw) ==
    \E i \in 1..(Len(s) - Len(kw) + 1) : SubSeq(s, i, i + Len(kw) - 1) = kw

\* The keyword table with one more entry, for failed attempts.
KeywordsWithFail ==
    << <<<<"e","r","r","o","r">>, "3">>,
       <<<<"e","r","r">>, "3">>,
       <<<<"f","a","i","l">>, "3">>,
       <<<<"w","a","r","n","i","n","g">>, "4">>,
       <<<<"w","a","r","n">>, "4">>,
       <<<<"c","r","i","t">>, "2">>,
       <<<<"a","l","e","r","t">>, "1">>,
       <<<<"e","m","e","r","g">>, "0">>,
       <<<<"d","e","b","u","g">>, "7">>,
       <<<<"n","o","t","i","c","e">>, "5">> >>

\* The keyword table with debug searched first.
KeywordsDebugFirst ==
    << <<<<"d","e","b","u","g">>, "7">>,
       <<<<"e","r","r","o","r">>, "3">>,
       <<<<"e","r","r">>, "3">>,
       <<<<"w","a","r","n","i","n","g">>, "4">>,
       <<<<"w","a","r","n">>, "4">>,
       <<<<"c","r","i","t">>, "2">>,
       <<<<"a","l","e","r","t">>, "1">>,
       <<<<"e","m","e","r","g">>, "0">>,
       <<<<"n","o","t","i","c","e">>, "5">> >>

\* The keyword table of _add_line, in the order it is searched.
Keywords ==
    << <<<<"e","r","r","o","r">>, "3">>,
       <<<<"e","r","r">>, "3">>,
       <<<<"w","a","r","n","i","n","g">>, "4">>,
       <<<<"w","a","r","n">>, "4">>,
       <<<<"c","r","i","t">>, "2">>,
       <<<<"a","l","e","r","t">>, "1">>,
       <<<<"e","m","e","r","g">>, "0">>,
       <<<<"d","e","b","u","g">>, "7">>,
       <<<<"n","o","t","i","c","e">>, "5">> >>

\* The priority _add_line gives a line: the first keyword of the table the
\* lower-cased line contains decides, "6" (info) when none does.
RECURSIVE PrioFrom(_, _)
PrioFrom(low, k) ==
    IF k > Len(Keywords) THEN "6"
    ELSE IF Contains(low, Keywords[k][1]) THEN Keywords[k][2]
    ELSE PrioFrom(low, k + 1)

Prio(text) == PrioFrom(Lower(text), 1)

\* The row _add_line appends to the store for a line: priority, timestamp
\* (the first of the parts of line.split(" ", 3)) and message (the last).
Row(text) ==
    LET parts == SplitMax(text, " ", 3)
    IN  [prio |-> Prio(text),
         ts   |-> parts[1],
         msg  |-> IF Len(parts) > 1 THEN parts[Len(parts)] ELSE text]

\* The filter with the search text compared as typed.
FilterFuncAsTyped(row, srch) ==
    IF srch = <<>> THEN TRUE ELSE Contains(Lower(row.msg), srch)

\* _filter_func for one row: the lower-cased search text is looked for in the
\* lower-cased message; an empty search text shows every row.
FilterFunc(row, srch) ==
    IF Lower(srch) = <<>> THEN TRUE ELSE Contains(Lower(row.msg), Lower(srch))

\* The words of the command line, as texts.
W_journalctl == <<"j","o","u","r","n","a","l","c","t","l">>
W_no_pager == <<"-","-","n","o","-","p","a","g","e","r">>
W_o == <<"-","o">>
W_short_iso == <<"s","h","o","r","t","-","i","s","o">>
W_u == <<"-","u">>
W_p == <<"-","p">>
W_since == <<"-","-","s","i","n","c","e">>
W_f == <<"-","f">>
W_n == <<"-","n">>
W_1000 == <<"1","0","0","0">>

\* str(k) for a priority level k in 0..7.
Str(k) ==
    CASE k = 0 -> <<"0">> [] k = 1 -> <<"1">> [] k = 2 -> <<"2">> [] k = 3 -> <<"3">>
      [] k = 4 -> <<"4">> [] k = 5 -> <<"5">> [] k = 6 -> <<"6">> [] k = 7 -> <<"7">>

\* The unit option with the text of the entry as it was typed.
UnitArgsAsTyped(unit_text) ==
    IF unit_text # <<>> THEN <<W_u, unit_text>> ELSE <<>>

\* if unit: cmd += ["-u", unit], unit being the stripped text of the entry.
UnitArgs(unit_text) ==
    IF Strip(unit_text) # <<>> THEN <<W_u, Strip(unit_text)>> ELSE <<>>

\* No severity option whatever is selected.
PrioArgsNone(idx) == <<>>

\* if prio_idx > 0: cmd += ["-p", str(prio_idx - 1)]
PrioArgs(idx) == IF idx > 0 THEN <<W_p, Str(idx - 1)>> ELSE <<>>

\* if since: cmd += ["--since", since], since being the stripped text.
SinceArgs(since_text) ==
    IF Strip(since_text) # <<>> THEN <<W_since, Strip(since_text)>> ELSE <<>>

\* if follow: cmd += ["-f"] else: cmd += ["-n", "1000"]
ModeArgs(follow) == IF follow THEN <<W_f>> ELSE <<W_n, W_1000>>

\* _build_cmd(follow) for the texts of the unit and since entries and the
\* selected index of the priority drop-down (0 is "All").
BuildCmd(unit_text, idx, since_text, follow) ==
    <<W_journalctl, W_no_pager, W_o, W_short_iso>>
        \o UnitArgs(unit_text) \o PrioArgs(idx) \o SinceArgs(since_text)
        \o ModeArgs(follow)


\* ------------------------------------------------------------------- state
VARIABLES
    btn_active,      \* follow_btn.get_active(): the state of the Follow toggle
    follow_running,  \* self._follow_running
    follow_proc,     \* self._follow_proc: 0 is None, p > 0 the Popen of process p
    main_pc,         \* where the main thread is: "idle" (in the main loop) or
                     \* "off" (in _toggle_follow, after clearing the flag)
    sessions,        \* reader threads started so far; thread t serves session t
    pc,              \* pc[t]: where reader thread t is in _follow_thread
    stream,          \* stream[t]: the process whose stdout thread t iterates
    line,            \* line[t]: the line thread t holds
    proc_state,      \* proc_state[p]: "none", "alive", "terminated", "exited"
    emitted,         \* emitted[p]: lines process p has written so far
    pipe,            \* pipe[p]: lines written by p and not yet read
    idle_queue,      \* the callbacks queued with GLib.idle_add, oldest first
    log_store,       \* self.log_store: rows [prio, ts, msg]
    all_lines,       \* self._all_lines: the lines behind the rows
    result,          \* what subprocess.run gave the latest _load_logs
    loads,           \* _load_logs calls so far
    unit,            \* unit_entry.get_text()
    prio_idx,        \* prio_combo.get_selected(): 0 is "All", k + 1 is level k
    since,           \* since_entry.get_text()
    search,          \* search_entry.get_text()
    visible,         \* the rows self.log_filter shows, in the order of the store
    cmd,             \* the command _build_cmd built last
    arg,             \* the argument of the latest direct call of a function
    ret              \* what that call returned

vars == <<btn_active, follow_running, follow_proc, main_pc, sessions, pc, stream,
          line, proc_state, emitted, pipe, idle_queue, log_store, all_lines,
          result, loads, unit, prio_idx, since, search, visible, cmd, arg, ret>>

\* The widgets _build_cmd and _filter_func read.
filter_vars == <<unit, prio_idx, since, search>>

\* The latest direct call of a function.
fn_vars == <<arg, ret>>

follow_vars == <<btn_active, follow_running, follow_proc, main_pc, sessions, pc,
                 stream, line, proc_state, emitted, pipe, idle_queue>>

\* Thread t runs _follow_thread for session t and spawns process t.
Threads == 1..MaxSessions

NoLine == [text |-> <<>>, src |-> 0, seq |-> 0, by |-> 0]

\* What a follow subprocess may write as one line.
FollowTexts == { <<"t", " ", "a", "\n">>, <<"\n">> }

\* _build_cmd has not been called yet.
NoCmd == [follow |-> FALSE, argv |-> <<>>]

\* No function has been called directly yet.
NoCall == [fn |-> "none"]

\* No subprocess.run has returned yet.
NoResult == [kind |-> "none", rc |-> 0, stdout |-> <<>>]

\* __init__
WindowInit ==
    /\ btn_active = FALSE
    /\ follow_running = FALSE
    /\ follow_proc = 0
    /\ main_pc = "idle"
    /\ sessions = 0
    /\ pc = [t \in Threads |-> "none"]
    /\ stream = [t \in Threads |-> 0]
    /\ line = [t \in Threads |-> NoLine]
    /\ proc_state = [p \in Threads |-> "none"]
    /\ emitted = [p \in Threads |-> 0]
    /\ pipe = [p \in Threads |-> <<>>]
    /\ idle_queue = <<>>
    /\ log_store = <<>>
    /\ all_lines = <<>>
    /\ result = NoResult
    /\ loads = 0
    /\ unit = <<>>
    /\ prio_idx = 0
    /\ since = <<>>
    /\ search = <<>>
    /\ visible = <<>>
    /\ cmd = NoCmd

\* The window, and no function called directly.
Init ==
    /\ WindowInit
    /\ arg = NoCall
    /\ ret = NoCall

\* ------------------------------------------------------- the main thread
\* _toggle_follow, btn active: set the flag and start a reader thread.
ToggleOn ==
    /\ main_pc = "idle"
    /\ ~btn_active
    /\ sessions < MaxSessions
    /\ btn_active' = TRUE
    /\ follow_running' = TRUE
    /\ sessions' = sessions + 1
    /\ pc' = [pc EXCEPT ![sessions + 1] = "build"]
    /\ UNCHANGED <<follow_proc, main_pc, stream, line, proc_state, emitted, pipe,
                   idle_queue, log_store, all_lines, result, loads,
                   filter_vars, visible, cmd, fn_vars>>

\* _toggle_follow, btn not active, first statement: clear the flag.
ToggleOffFlag ==
    /\ main_pc = "idle"
    /\ btn_active
    /\ btn_active' = FALSE
    /\ follow_running' = FALSE
    /\ main_pc' = "off"
    /\ UNCHANGED <<follow_proc, sessions, pc, stream, line, proc_state, emitted,
                   pipe, idle_queue, log_store, all_lines, result, loads,
                   filter_vars, visible, cmd, fn_vars>>

\* Popen.terminate(): the signal ends a process that is alive.
Terminated(p) ==
    IF p # 0 /\ proc_state[p] = "alive"
    THEN [proc_state EXCEPT ![p] = "terminated"]
    ELSE proc_state

\* _toggle_follow, btn not active, the rest: terminate the process whose
\* handle self._follow_proc holds now, if it holds one.
ToggleOffTerminate ==
    /\ main_pc = "off"
    /\ proc_state' = Terminated(follow_proc)
    /\ main_pc' = "idle"
    /\ UNCHANGED <<btn_active, follow_running, follow_proc, sessions, pc, stream,
                   line, emitted, pipe, idle_queue, log_store, all_lines, result,
                   loads,
                   filter_vars, visible, cmd, fn_vars>>

\* The row is appended to the store and the raw lines are left alone.
AddLineRowOnly(st, l) == [store |-> Append(st.store, Row(l.text)), lines |-> st.lines]

\* _add_line(line) on the store and the raw lines, st = [store, lines]: one
\* row is appended to the store and the line to the raw lines.
AddLine(st, l) ==
    [store |-> Append(st.store, Row(l.text)), lines |-> Append(st.lines, l)]

\* self.log_filter (store.filter_new() with _filter_func as its visible
\* function) when a row is inserted in the store: the function is asked about
\* the new row, with the search text of that moment.
FilterInsert(vis, row, srch) == IF FilterFunc(row, srch) THEN Append(vis, row) ELSE vis

\* The filter after the rows of a store were inserted one by one, from the
\* k-th on.
RECURSIVE FilterInsertAll(_, _, _, _)
FilterInsertAll(vis, store, srch, k) ==
    IF k > Len(store) THEN vis
    ELSE FilterInsertAll(FilterInsert(vis, store[k], srch), store, srch, k + 1)

\* The filter is left as it is.
NoRefilter(store, srch) == visible

\* self.log_filter.refilter(): the function is asked about every row of the
\* store again.
Refilter(store, srch) == FilterInsertAll(<<>>, store, srch, 1)

\* self.log_filter when the store is cleared: it drops the rows the store
\* dropped (kept is what the store kept).
FilterCleared(vis, kept) == IF kept = <<>> THEN <<>> ELSE vis

\* The main loop runs the oldest queued callback, _add_line(line).
Dispatch ==
    /\ main_pc = "idle"
    /\ idle_queue # <<>>
    /\ LET st == AddLine([store |-> log_store, lines |-> all_lines], Head(idle_queue))
       IN  /\ log_store' = st.store
           /\ all_lines' = st.lines
           /\ visible' = FilterInsert(visible, st.store[Len(st.store)], search)
    /\ idle_queue' = Tail(idle_queue)
    /\ UNCHANGED <<btn_active, follow_running, follow_proc, main_pc, sessions, pc,
                   stream, line, proc_state, emitted, pipe, result, loads,
                   filter_vars, cmd, fn_vars>>

\* --------------------------------------------------------- the batch load
\* The characters a batch command's output is made of.
OutChars == {"a", " ", "\n"}

\* The outputs of a batch command, up to MaxOut characters.
Outputs == UNION {[1..n -> OutChars] : n \in 0..MaxOut}

\* What subprocess.run(cmd, capture_output=True, text=True, timeout=10) can
\* do: return a CompletedProcess (any exit status, any output), raise
\* TimeoutExpired (the command had written stdout so far) or raise OSError
\* (the command could not be started).
RunResults ==
    {[kind |-> "completed", rc |-> rc, stdout |-> o] : rc \in {0, 1}, o \in Outputs}
    \cup {[kind |-> "timeout", rc |-> 0, stdout |-> o] : o \in Outputs}
    \cup {[kind |-> "spawnfail", rc |-> 0, stdout |-> <<>>]}

\* str(e) of the exception subprocess.run raised.
ErrorText(kind) ==
    IF kind = "timeout" THEN <<"t","i","m","e","d"," ","o","u","t">>
    ELSE <<"N","o"," ","s","u","c","h"," ","f","i","l","e">>

\* The row the except branch appends: ["3", "", str(e)].
ErrorRow(kind) == [prio |-> "3", ts |-> <<>>, msg |-> ErrorText(kind)]

\* result.stdout.strip().split("\n") if result.stdout.strip() else []
LoadLines(stdout) ==
    IF Strip(stdout) # <<>> THEN Split(Strip(stdout), "\n") ELSE <<>>

\* for line in lines: self._add_line(line), from the k-th line on.
RECURSIVE AddLines(_, _, _)
AddLines(st, lines, k) ==
    IF k > Len(lines) THEN st
    ELSE AddLines(AddLine(st, [text |-> lines[k], src |-> 0, seq |-> k, by |-> 0]),
                  lines, k + 1)

\* The store and the raw lines are not cleared.
NotCleared(st) == st

\* self.log_store.clear(); self._all_lines.clear()
Cleared(st) == [store |-> <<>>, lines |-> <<>>]

\* The store and the raw lines after _load_logs, given what subprocess.run did.
Loaded(st, res) ==
    IF res.kind = "completed"
    THEN AddLines(Cleared(st), LoadLines(res.stdout), 1)
    ELSE [store |-> Append(Cleared(st).store, ErrorRow(res.kind)),
          lines |-> Cleared(st).lines]

\* _load_logs, the handler of the Load button, on the main thread, when
\* subprocess.run does one of results.  The filter drops its rows when the
\* store is cleared and is asked about each row the load appends.
LoadLogsFrom(results) ==
    /\ main_pc = "idle"
    /\ loads < MaxLoads
    /\ cmd' = [follow |-> FALSE, argv |-> BuildCmd(unit, prio_idx, since, FALSE)]
    /\ \E res \in results :
          /\ result' = res
          /\ LET st == Loaded([store |-> log_store, lines |-> all_lines], res)
             IN  /\ log_store' = st.store
                 /\ all_lines' = st.lines
                 /\ visible' = FilterInsertAll(
                        FilterCleared(visible,
                                      Cleared([store |-> log_store, lines |-> all_lines]).store),
                        st.store, search,
                        Len(Cleared([store |-> log_store, lines |-> all_lines]).store) + 1)
    /\ loads' = loads + 1
    /\ UNCHANGED <<follow_vars, filter_vars, fn_vars>>

\* _load_logs with any output of the command.
LoadLogs == LoadLogsFrom(RunResults)

\* ------------------------------------------------------ the subprocesses
\* A follow subprocess writes one more line.
Emit(p) ==
    /\ proc_state[p] = "alive"
    /\ emitted[p] < MaxEmit
    /\ \E txt \in FollowTexts :
          pipe' = [pipe EXCEPT ![p] =
                      Append(@, [text |-> txt, src |-> p, seq |-> emitted[p] + 1,
                                 by |-> 0])]
    /\ emitted' = [emitted EXCEPT ![p] = @ + 1]
    /\ UNCHANGED <<btn_active, follow_running, follow_proc, main_pc, sessions, pc,
                   stream, line, proc_state, idle_queue, log_store, all_lines,
                   result, loads,
                   filter_vars, visible, cmd, fn_vars>>

\* A follow subprocess crashes or ends on its own.
ProcExit(p) ==
    /\ proc_state[p] = "alive"
    /\ proc_state' = [proc_state EXCEPT ![p] = "exited"]
    /\ UNCHANGED <<btn_active, follow_running, follow_proc, main_pc, sessions, pc,
                   stream, line, emitted, pipe, idle_queue, log_store, all_lines,
                   result, loads,
                   filter_vars, visible, cmd, fn_vars>>

\* ----------------------------------------------------- the reader threads
\* cmd = self._build_cmd(follow=True)
BuildCmdStep(t) ==
    /\ pc[t] = "build"
    /\ pc' = [pc EXCEPT ![t] = "spawn"]
    /\ cmd' = [follow |-> TRUE, argv |-> BuildCmd(unit, prio_idx, since, TRUE)]
    /\ UNCHANGED <<btn_active, follow_running, follow_proc, main_pc, sessions,
                   stream, line, proc_state, emitted, pipe, idle_queue, log_store,
                   all_lines, result, loads,
                   filter_vars, visible, fn_vars>>

\* subprocess.Popen(cmd, ...) returns: process t runs.
Spawn(t) ==
    /\ pc[t] = "spawn"
    /\ proc_state' = [proc_state EXCEPT ![t] = "alive"]
    /\ pc' = [pc EXCEPT ![t] = "store"]
    /\ UNCHANGED <<btn_active, follow_running, follow_proc, main_pc, sessions,
                   stream, line, emitted, pipe, idle_queue, log_store, all_lines,
                   result, loads,
                   filter_vars, visible, cmd, fn_vars>>

\* subprocess.Popen(cmd, ...) raises: except Exception: pass, the thread ends.
SpawnFail(t) ==
    /\ pc[t] = "spawn"
    /\ pc' = [pc EXCEPT ![t] = "done"]
    /\ UNCHANGED <<btn_active, follow_running, follow_proc, main_pc, sessions,
                   stream, line, proc_state, emitted, pipe, idle_queue, log_store,
                   all_lines, result, loads,
                   filter_vars, visible, cmd, fn_vars>>

\* self._follow_proc = <the Popen>
StoreHandle(t) ==
    /\ pc[t] = "store"
    /\ follow_proc' = t
    /\ pc' = [pc EXCEPT ![t] = "iter"]
    /\ UNCHANGED <<btn_active, follow_running, main_pc, sessions, stream, line,
                   proc_state, emitted, pipe, idle_queue, log_store, all_lines,
                   result, loads,
                   filter_vars, visible, cmd, fn_vars>>

\* for line in self._follow_proc.stdout: the attribute is read again, and the
\* loop iterates the stdout of the process it names at that moment.
Iter(t) ==
    /\ pc[t] = "iter"
    /\ stream' = [stream EXCEPT ![t] = follow_proc]
    /\ pc' = [pc EXCEPT ![t] = "read"]
    /\ UNCHANGED <<btn_active, follow_running, follow_proc, main_pc, sessions,
                   line, proc_state, emitted, pipe, idle_queue, log_store,
                   all_lines, result, loads,
                   filter_vars, visible, cmd, fn_vars>>

\* The iterator yields the next line of the stream.
ReadLine(t) ==
    /\ pc[t] = "read"
    /\ pipe[stream[t]] # <<>>
    /\ line' = [line EXCEPT ![t] = [Head(pipe[stream[t]]) EXCEPT !.by = t]]
    /\ pipe' = [pipe EXCEPT ![stream[t]] = Tail(@)]
    /\ pc' = [pc EXCEPT ![t] = "check"]
    /\ UNCHANGED <<btn_active, follow_running, follow_proc, main_pc, sessions,
                   stream, proc_state, emitted, idle_queue, log_store, all_lines,
                   result, loads,
                   filter_vars, visible, cmd, fn_vars>>

\* The stream is at its end (the process is gone and nothing is left to
\* read): the loop ends and the thread with it.
ReadEof(t) ==
    /\ pc[t] = "read"
    /\ pipe[stream[t]] = <<>>
    /\ proc_state[stream[t]] # "alive"
    /\ pc' = [pc EXCEPT ![t] = "done"]
    /\ UNCHANGED <<btn_active, follow_running, follow_proc, main_pc, sessions,
                   stream, line, proc_state, emitted, pipe, idle_queue, log_store,
                   all_lines, result, loads,
                   filter_vars, visible, cmd, fn_vars>>

\* if not self._follow_running: break / line = line.strip() / if line:
CheckFlag(t) ==
    /\ pc[t] = "check"
    /\ IF ~follow_running
       THEN /\ pc' = [pc EXCEPT ![t] = "done"]
            /\ line' = line
       ELSE /\ line' = [line EXCEPT ![t].text = Strip(@)]
            /\ pc' = [pc EXCEPT ![t] =
                         IF Strip(line[t].text) # <<>> THEN "enqueue" ELSE "read"]
    /\ UNCHANGED <<btn_active, follow_running, follow_proc, main_pc, sessions,
                   stream, proc_state, emitted, pipe, idle_queue, log_store,
                   all_lines, result, loads,
                   filter_vars, visible, cmd, fn_vars>>

\* GLib.idle_add(self._add_line, line)
Enqueue(t) ==
    /\ pc[t] = "enqueue"
    /\ idle_queue' = Append(idle_queue, line[t])
    /\ pc' = [pc EXCEPT ![t] = "read"]
    /\ UNCHANGED <<btn_active, follow_running, follow_proc, main_pc, sessions,
                   stream, line, proc_state, emitted, pipe, log_store, all_lines,
                   result, loads,
                   filter_vars, visible, cmd, fn_vars>>

\* One step of reader thread t.
FollowThread(t) ==
    \/ BuildCmdStep(t)
    \/ Spawn(t)
    \/ SpawnFail(t)
    \/ StoreHandle(t)
    \/ Iter(t)
    \/ ReadLine(t)
    \/ ReadEof(t)
    \/ CheckFlag(t)
    \/ Enqueue(t)

\* The follow session: the toggle, the reader threads, their subprocesses
\* and the main loop delivering what the threads queued.
Next ==
    \/ ToggleOn
    \/ ToggleOffFlag
    \/ ToggleOffTerminate
    \/ Dispatch
    \/ \E t \in Threads : FollowThread(t)
    \/ \E p \in Threads : Emit(p)
    \/ \E p \in Threads : ProcExit(p)

Spec == Init /\ [][Next]_vars

\* The batch loader alone: Load is clicked while no follow session runs.
LoadNext == LoadLogs

LoadSpec == Init /\ [][LoadNext]_vars

\* ------------------------------------------------------ the filters bar
\* The texts typed in the unit entry and in the since entry, and the
\* positions of the priority drop-down ("All" and the eight levels).
UnitTexts == {<<>>, <<" ">>, <<" ","s"," ">>, <<"-","f">>}
SinceTexts == {<<>>, <<" ">>, <<" ","1"," ","h">>}
PrioPositions == 0..8

\* The user types in the unit entry (no handler is connected to it).
SetUnit ==
    /\ main_pc = "idle"
    /\ \E u \in UnitTexts : u # unit /\ unit' = u
    /\ UNCHANGED <<follow_vars, log_store, all_lines, result, loads, prio_idx, since,
                   search, visible, cmd, fn_vars>>

\* The user picks a position of the priority drop-down (no handler is
\* connected to it).
SetPrio ==
    /\ main_pc = "idle"
    /\ \E i \in PrioPositions : i # prio_idx /\ prio_idx' = i
    /\ UNCHANGED <<follow_vars, log_store, all_lines, result, loads, unit, since,
                   search, visible, cmd, fn_vars>>

\* The user types in the since entry (no handler is connected to it).
SetSince ==
    /\ main_pc = "idle"
    /\ \E x \in SinceTexts : x # since /\ since' = x
    /\ UNCHANGED <<follow_vars, log_store, all_lines, result, loads, unit, prio_idx,
                   search, visible, cmd, fn_vars>>

\* ------------------------------------------------------------- the view
\* The texts typed in the search entry while records arrive.
ViewSearches == {<<>>, <<"A">>, <<"t">>}

\* The user types in the search entry: its "changed" signal runs
\* _filter_view, which refilters with the new text.
SetSearch ==
    /\ main_pc = "idle"
    /\ \E x \in ViewSearches :
          /\ x # search
          /\ search' = x
          /\ visible' = Refilter(log_store, x)
    /\ UNCHANGED <<follow_vars, log_store, all_lines, result, loads, unit, prio_idx,
                   since, cmd, fn_vars>>

\* What subprocess.run does in the loads of the view: two lines of output,
\* no output with exit status 1, a timeout, a command that cannot be started.
ViewResults ==
    {[kind |-> "completed", rc |-> 0, stdout |-> <<"a","\n","b","\n">>],
     [kind |-> "completed", rc |-> 1, stdout |-> <<>>],
     [kind |-> "timeout", rc |-> 0, stdout |-> <<>>],
     [kind |-> "spawnfail", rc |-> 0, stdout |-> <<>>]}

\* _load_logs in the view.
LoadView == LoadLogsFrom(ViewResults)

\* The view: searches, loads and the deliveries of one follow session that
\* is not stopped.
ViewNext ==
    \/ SetSearch
    \/ LoadView
    \/ ToggleOn
    \/ Dispatch
    \/ \E t \in Threads : FollowThread(t)
    \/ \E p \in Threads : Emit(p)
    \/ \E p \in Threads : ProcExit(p)

ViewSpec == Init /\ [][ViewNext]_vars

\* The priority drop-down, the search entry and the Load button.
SeverityNext ==
    \/ SetPrio
    \/ SetSearch
    \/ LoadView

SeveritySpec == Init /\ [][SeverityNext]_vars

\* ------------------------------------------------- direct calls of functions
\* The words the lines given to _add_line are made of.
ClassifyWords ==
    { <<"e","r","r","o","r">>, <<"s","t","d","e","r","r">>, <<"W","A","R","N","I","N","G">>,
      <<"w","a","r","n">>, <<"c","r","i","t">>, <<"A","l","e","r","t">>,
      <<"e","m","e","r","g">>, <<"d","e","b","u","g">>, <<"n","o","t","i","c","e">>,
      <<"i","n","f","o">>, <<"2","0","2","4","-","0","1","-","0","1","T","1","0",":","0","0",":","0","0">> }

\* The lines of n words, separated by one space.
RECURSIVE WordLines(_)
WordLines(n) ==
    IF n = 1 THEN ClassifyWords
    ELSE {l \o <<" ">> \o w : l \in WordLines(n - 1), w \in ClassifyWords}

\* The two lines of the end-to-end scenario.
ScenarioLine1 == <<"2","0","2","4","-","0","1","-","0","1","T","1","0",":","0","0",":","0","0"," ","s","s","h","d",":"," ","F","a","i","l","e","d"," ","p","a","s","s","w","o","r","d"," ","f","o","r"," ","r","o","o","t">>
ScenarioLine2 == <<"2","0","2","4","-","0","1","-","0","1","T","1","0",":","0","0",":","0","1"," ","k","e","r","n","e","l",":"," ","i","n","f","o"," ","m","e","s","s","a","g","e">>

\* The lines _add_line is called with: the empty line, lines of up to
\* MaxWords words and the lines of the scenario.
ClassifyLines ==
    {<<>>, ScenarioLine1, ScenarioLine2} \cup UNION {WordLines(n) : n \in 1..MaxWords}

\* A call of _add_line with a line of ClassifyLines, not yet made.
ClassifyInit ==
    /\ WindowInit
    /\ arg \in {[fn |-> "_add_line", line |-> l] : l \in ClassifyLines}
    /\ ret = NoCall

\* _add_line(line) on an empty store: ret is the row it appended.
AddLineCall ==
    /\ arg.fn = "_add_line"
    /\ ret = NoCall
    /\ ret' = [fn |-> "_add_line",
               row |-> AddLine([store |-> <<>>, lines |-> <<>>],
                               [text |-> arg.line, src |-> 0, seq |-> 0, by |-> 0]).store[1]]
    /\ UNCHANGED <<follow_vars, log_store, all_lines, result, loads, filter_vars,
                   visible, cmd, arg>>

ClassifyNext == AddLineCall

\* _add_line called with each line of ClassifyLines.
ClassifySpec == ClassifyInit /\ [][ClassifyNext]_vars

\* _build_cmd(follow) with the widgets as they are: arg keeps what it read,
\* ret the command it returned.
BuildCmdCall ==
    \E follow \in BOOLEAN :
        /\ arg' = [fn |-> "_build_cmd", unit |-> unit, prio_idx |-> prio_idx,
                   since |-> since, follow |-> follow]
        /\ ret' = [fn |-> "_build_cmd", argv |-> BuildCmd(unit, prio_idx, since, follow)]
        /\ UNCHANGED <<follow_vars, log_store, all_lines, result, loads, filter_vars,
                       visible, cmd>>

CmdNext == SetUnit \/ SetPrio \/ SetSince \/ BuildCmdCall

\* The filters bar and _build_cmd.
CmdSpec == Init /\ [][CmdNext]_vars

\* The rows and the search texts _filter_func is called with.
FilterRows ==
    {[prio |-> p, ts |-> t, msg |-> m] :
        p \in {"3", "6"},
        t \in {<<>>, <<"a","b">>},
        m \in {<<>>, <<"b">>, <<"x","A","b">>, <<"a"," ","B">>, <<"3">>, <<"a","b","c">>}}

SearchTexts == {<<>>, <<"a">>, <<"A","B">>, <<"b">>, <<"3">>, <<" ">>}

\* A call of _filter_func with a row and a text of the search entry, not
\* yet made.
FilterInit ==
    /\ WindowInit
    /\ arg \in {[fn |-> "_filter_func", row |-> row, search |-> srch] :
                    row \in FilterRows, srch \in SearchTexts}
    /\ ret = NoCall

\* _filter_func(model, iter): ret is what it returned.
FilterFuncCall ==
    /\ arg.fn = "_filter_func"
    /\ ret = NoCall
    /\ ret' = [fn |-> "_filter_func", val |-> FilterFunc(arg.row, arg.search)]
    /\ UNCHANGED <<follow_vars, log_store, all_lines, result, loads, filter_vars,
                   visible, cmd, arg>>

FilterNext == FilterFuncCall

\* _filter_func called with each row of FilterRows and text of SearchTexts.
FilterSpec == FilterInit /\ [][FilterNext]_vars

\* ------------------------------------------------------------ the claims
\* The follow subprocesses that are alive: spawned, not signalled, not ended.
Alive == {p \in Threads : proc_state[p] = "alive"}

\* stop() has been executed for session t and has returned: the toggle was
\* switched off after session t began and _toggle_follow is not running.
Stopped(t) ==
    /\ t <= sessions
    /\ t < sessions \/ (~btn_active /\ main_pc = "idle")

\* Session t is the running one and no stop was requested for it.
Running(t) == t = sessions /\ btn_active

\* Reader thread t exists and has not ended.
Reading(t) == pc[t] \notin {"none", "done"}

\* Reader thread t can still queue a record: it is about to, or it has not
\* ended and would find the flag set.
Deliverable(t) == pc[t] = "enqueue" \/ (Reading(t) /\ follow_running)

\* The rows of a store that report an error (the only notice the consumer gets).
IsErrorRow(r) == r.prio = "3" /\ r.ts = <<>> /\ r.msg \in {ErrorText("timeout"), ErrorText("spawnfail")}

Notices(store) == Cardinality({i \in 1..Len(store) : IsErrorRow(store[i])})

\* The lines that are queued for the main loop or already in the raw lines.
Delivered(queue, lines) ==
    {queue[i] : i \in 1..Len(queue)} \cup {lines[i] : i \in 1..Len(lines)}

\* C1: at most one follow subprocess spawned by the session is alive at any
\* time, whatever the toggle events and the reader threads' steps are.
C1_AtMostOneLiveProcess == Cardinality(Alive) <= 1

\* C2: once stop() has been executed for a session, that session's
\* subprocess gets the termination signal: no stopped session is back to
\* idle (its reader ended) with its subprocess alive and never signalled.
C2_StopTerminatesOwnedProcess ==
    \A t \in Threads :
        (Stopped(t) /\ pc[t] = "done") => proc_state[t] # "alive"

\* C3: after stop() no record is appended to the store once the reader
\* thread of the stopped session has ended, records it queued for the main
\* loop before ending included.
C3_NoDeliveryAfterReaderExit ==
    [][\A t \in Threads :
          (Stopped(t) /\ pc[t] = "done")
              => ~ /\ Len(all_lines') = Len(all_lines) + 1
                   /\ all_lines'[Len(all_lines')].by = t]_vars

\* C4: after stop() the reader thread of a session is never left blocked in
\* a read that nothing will end: if it waits on an empty stream, the process
\* behind that stream has been signalled or has ended.
C4_StopUnblocksReader ==
    \A t \in Threads :
        (Stopped(t) /\ pc[t] = "read" /\ pipe[stream[t]] = <<>>)
            => proc_state[stream[t]] # "alive"

\* C5: when the stream of the running session closes without a stop, the
\* session returns to idle (flag false, no handle, toggle off) and the
\* consumer gets exactly one notice.
C5_StreamClosureIsImplicitStop ==
    [][\A t \in Threads :
          (Running(t) /\ pc[t] = "read" /\ pc'[t] = "done")
              => /\ follow_running' = FALSE
                 /\ follow_proc' = 0
                 /\ btn_active' = FALSE
                 /\ Notices(log_store') = Notices(log_store) + 1]_vars

\* C6: when spawning the follow subprocess fails, the session ends idle
\* (flag false, no handle), an error is surfaced and nothing the session
\* read is delivered.
C6_SpawnFailureReturnsToIdle ==
    [][\A t \in Threads :
          (pc[t] = "spawn" /\ pc'[t] = "done")
              => /\ follow_running' = FALSE
                 /\ follow_proc' = 0
                 /\ Notices(log_store') = Notices(log_store) + 1
                 /\ \A l \in Delivered(idle_queue', all_lines') : l.by # t]_vars

\* C7: the records of follow mode are in the store in the order in which
\* their subprocess emitted the lines (_add_line appends the row and the raw
\* line together, so the raw lines give the order of the rows).
C7_DeliveryOrder ==
    \A i, j \in 1..Len(all_lines) :
        (i < j /\ all_lines[i].src # 0 /\ all_lines[i].src = all_lines[j].src)
            => all_lines[i].seq < all_lines[j].seq

\* C8: at most one reader thread that can still deliver records exists.
C8_AtMostOneReader == Cardinality({t \in Threads : Deliverable(t)}) <= 1

\* C9: a batch load whose command exits with a non-zero status leaves an
\* error result: one error row and no record taken from the output.
C9_NonZeroExitIsError ==
    [][(loads' = loads + 1 /\ result'.kind = "completed" /\ result'.rc # 0)
          => /\ Len(log_store') = 1
             /\ IsErrorRow(log_store'[1])
             /\ all_lines' = <<>>]_vars

\* The lines of an output: each ends at a line break, the last one also at
\* the end of the output.
OutputLines(s) ==
    IF s = <<>> THEN <<>>
    ELSE IF s[Len(s)] = "\n" THEN Split(SubSeq(s, 1, Len(s) - 1), "\n")
    ELSE Split(s, "\n")

\* lines joined by line breaks, from the k-th on.
RECURSIVE Join(_, _)
Join(lines, k) ==
    IF k > Len(lines) THEN <<>>
    ELSE IF k = Len(lines) THEN lines[k]
    ELSE lines[k] \o <<"\n">> \o Join(lines, k + 1)

\* A load that timed out or could not start leaves the error report alone.
LoadFailureLeavesOnlyError ==
    result'.kind \in {"timeout", "spawnfail"}
        => /\ log_store' = <<ErrorRow(result'.kind)>>
           /\ all_lines' = <<>>

\* C10 as stated: a failed load (timeout, spawn failure) leaves only the
\* error report, and a successful one leaves one record per output line and
\* nothing from before the load.
C10_OneRecordPerOutputLine ==
    [][loads' = loads + 1
          => /\ LoadFailureLeavesOnlyError
             /\ (result'.kind = "completed" /\ result'.rc = 0)
                   => /\ Len(log_store') = Len(OutputLines(result'.stdout))
                      /\ Len(all_lines') = Len(log_store')]_vars

\* C10, amended: a failed load (timeout, spawn failure) leaves only the
\* error report; a successful one leaves one record per line of the output
\* stripped of leading and trailing whitespace, in the original order, and
\* nothing from before the load.
C10_AllOrError ==
    [][loads' = loads + 1
          => /\ LoadFailureLeavesOnlyError
             /\ (result'.kind = "completed" /\ result'.rc = 0)
                   => LET texts == [i \in 1..Len(all_lines') |-> all_lines'[i].text]
                      IN  /\ Len(log_store') = Len(texts)
                          /\ \A i \in 1..Len(texts) :
                                /\ log_store'[i] = Row(texts[i])
                                /\ \A k \in 1..Len(texts[i]) : texts[i][k] # "\n"
                          /\ IF Strip(result'.stdout) = <<>>
                             THEN texts = <<>>
                             ELSE texts # <<>> /\ Join(texts, 1) = Strip(result'.stdout)]_vars

\* A second load (the store held what the first one left) has succeeded
\* with two lines of output.
C10_Witness ==
    /\ loads = 2
    /\ result.kind = "completed" /\ result.rc = 0
    /\ result.stdout = <<"a", "\n", "a">>
    /\ Len(log_store) = 2

\* The one-character name of a level, as the store's first column holds it.
Digit(n) == Str(n)[1]

\* s occurs in t when both are lower-cased (t given lower-cased already).
OccursIn(s, t) ==
    \E i \in 0..(Len(t) - Len(s)) : \A k \in 1..Len(s) : LowerChar(t[i + k]) = s[k]

\* The keywords in the order the claim gives, with their levels.
ClaimedOrder ==
    << << <<"e","r","r","o","r">>, 3 >>, << <<"e","r","r">>, 3 >>,
       << <<"w","a","r","n","i","n","g">>, 4 >>, << <<"w","a","r","n">>, 4 >>,
       << <<"c","r","i","t">>, 2 >>, << <<"a","l","e","r","t">>, 1 >>,
       << <<"e","m","e","r","g">>, 0 >>, << <<"d","e","b","u","g">>, 7 >>,
       << <<"n","o","t","i","c","e">>, 5 >> >>

\* The level the claim gives a line: that of the first keyword of the order
\* that occurs in it, 6 when none does.
ClaimedLevel(l) ==
    LET hits == {k \in 1..Len(ClaimedOrder) : OccursIn(ClaimedOrder[k][1], l)}
    IN  IF hits = {} THEN 6
        ELSE ClaimedOrder[CHOOSE k \in hits : \A h \in hits : k <= h][2]

\* C12: for every line the row's severity is one of the levels 0..7, that of
\* the first keyword of the fixed order occurring in the line whatever the
\* case, 6 when none occurs; warning together with debug (and nothing
\* earlier in the order, that is, no err) gives 4.
C12_SeverityByKeywordPriority ==
    ret.fn = "_add_line"
        => /\ \E n \in 0..7 : ret.row.prio = Digit(n) /\ n = ClaimedLevel(arg.line)
           /\ (/\ OccursIn(<<"w","a","r","n","i","n","g">>, arg.line)
               /\ OccursIn(<<"d","e","b","u","g">>, arg.line)
               /\ ~OccursIn(<<"e","r","r">>, arg.line))
                   => ret.row.prio = Digit(4)

\* _add_line classified a line that has debug before WARNING.
C12_Witness ==
    /\ ret.fn = "_add_line"
    /\ arg.line = <<"d","e","b","u","g"," ","W","A","R","N","I","N","G">>
    /\ ret.row.prio = Digit(4)

\* The timestamps of the scenario's lines.
ScenarioTs(l) == SubSeq(l, 1, 19)

\* The scenario's timestamps are the rows' timestamps.
ScenarioTimestamps ==
    (ret.fn = "_add_line" /\ arg.line \in {ScenarioLine1, ScenarioLine2})
        => ret.row.ts = ScenarioTs(arg.line)

\* C13 as stated: the two lines of the scenario get the severities 3 and 6
\* and their leading tokens as timestamps.
C13_ScenarioSeverities36 ==
    /\ ScenarioTimestamps
    /\ (ret.fn = "_add_line" /\ arg.line = ScenarioLine1) => ret.row.prio = Digit(3)
    /\ (ret.fn = "_add_line" /\ arg.line = ScenarioLine2) => ret.row.prio = Digit(6)

\* C13, amended: the two lines of the scenario get the severities 6 and 6
\* (neither holds a keyword) and their leading tokens as timestamps.
C13_ScenarioSeverities66 ==
    /\ ScenarioTimestamps
    /\ (ret.fn = "_add_line" /\ arg.line = ScenarioLine1) => ret.row.prio = Digit(6)
    /\ (ret.fn = "_add_line" /\ arg.line = ScenarioLine2) => ret.row.prio = Digit(6)

\* _add_line classified the first line of the scenario.
C13_Witness == ret.fn = "_add_line" /\ arg.line = ScenarioLine1

\* C15: the predicate is true for the empty search text, and otherwise true
\* exactly when the lower-cased search text occurs in the lower-cased
\* message (the timestamp and the severity do not count).
C15_TextFilterPredicate ==
    ret.fn = "_filter_func"
        => ret.val = (arg.search = <<>> \/ OccursIn(Lower(arg.search), arg.row.msg))

\* _filter_func accepted a row whose message holds the search text in
\* another case, and whose timestamp holds it too.
C15_Witness ==
    /\ ret.fn = "_filter_func"
    /\ arg.search = <<"A","B">>
    /\ arg.row.msg = <<"x","A","b">>
    /\ ret.val = TRUE

\* A token that has the form of a timestamp: it starts with a digit.
LooksLikeTimestamp(tok) ==
    tok # <<>> /\ tok[1] \in {"0","1","2","3","4","5","6","7","8","9"}

\* C17: the row's timestamp is the leading timestamp token and its message
\* the rest of the line after it; a line without a well-formed leading
\* timestamp gets the empty timestamp and the whole line as message.
C17_TimestampMessageSplit ==
    ret.fn = "_add_line"
        => LET l == arg.line
               i == FindFrom(l, " ", 1)
               tok == IF i = 0 THEN l ELSE SubSeq(l, 1, i - 1)
           IN  IF LooksLikeTimestamp(tok)
               THEN /\ ret.row.ts = tok
                    /\ ret.row.msg = IF i = 0 THEN <<>> ELSE SubSeq(l, i + 1, Len(l))
               ELSE /\ ret.row.ts = <<>>
                    /\ ret.row.msg = l

\* The options of a command line from its i-th word on, as journalctl reads
\* them: -f stands alone, any other option takes the next word as value.
RECURSIVE Opts(_, _)
Opts(argv, i) ==
    IF i > Len(argv) THEN {}
    ELSE IF argv[i] = W_f \/ i = Len(argv)
         THEN {<<argv[i], <<>>>>} \cup Opts(argv, i + 1)
         ELSE {<<argv[i], argv[i + 1]>>} \cup Opts(argv, i + 2)

\* The values a command line gives an option.
Values(argv, opt) == {o[2] : o \in {x \in Opts(argv, 5) : x[1] = opt}}

\* What C14 says of the output format, the severity and the mode.
CmdFormatSeverityMode ==
    /\ SubSeq(ret.argv, 1, 4) = <<W_journalctl, W_no_pager, W_o, W_short_iso>>
    /\ {o[1] : o \in Opts(ret.argv, 5)} \subseteq {W_u, W_p, W_since, W_f, W_n}
    /\ Values(ret.argv, W_p) = IF arg.prio_idx > 0 THEN {Str(arg.prio_idx - 1)} ELSE {}
    /\ Values(ret.argv, W_f) = IF arg.follow THEN {<<>>} ELSE {}
    /\ Values(ret.argv, W_n) = IF arg.follow THEN {} ELSE {W_1000}

\* C14 as stated: the command asks for non-interactive timestamped output,
\* has the unit option iff the unit text is not empty, the severity option
\* with k iff level k is selected, the since text as typed iff it is not
\* empty, and either -f (follow) or -n 1000 (no follow), never both.
C14_CommandVerbatim ==
    ret.fn = "_build_cmd"
        => /\ CmdFormatSeverityMode
           /\ Values(ret.argv, W_u) = IF arg.unit # <<>> THEN {arg.unit} ELSE {}
           /\ Values(ret.argv, W_since) = IF arg.since # <<>> THEN {arg.since} ELSE {}

\* C14, amended: as stated, but the unit and the since texts count and are
\* passed without their leading and trailing whitespace.
C14_CommandStripped ==
    ret.fn = "_build_cmd"
        => /\ CmdFormatSeverityMode
           /\ Values(ret.argv, W_u)
                = IF Strip(arg.unit) # <<>> THEN {Strip(arg.unit)} ELSE {}
           /\ Values(ret.argv, W_since)
                = IF Strip(arg.since) # <<>> THEN {Strip(arg.since)} ELSE {}

\* _build_cmd was called with a unit text of one space and a since text with
\* spaces around it, and a severity selected.
C14_Witness ==
    /\ ret.fn = "_build_cmd"
    /\ arg.unit = <<" ">>
    /\ arg.since = <<" ","1"," ","h">>
    /\ arg.prio_idx = 4
    /\ ~arg.follow
    /\ ret.argv = <<W_journalctl, W_no_pager, W_o, W_short_iso, W_p, Str(3),
                    W_since, <<"1"," ","h">>, W_n, W_1000>>

\* The rows of a store that pass _filter_func with a search text, in order.
Passing(store, srch) ==
    LET Pass(r) == ((Lower(srch) = <<>>) \/ OccursIn(Lower(srch), r.msg))
    IN  SelectSeq(store, Pass)

\* C11: at every point the visible rows are exactly the rows of the store
\* whose message passes the predicate for the search text of that point.
C11_VisibleSubset == visible = Passing(log_store, search)

\* A search text is set that hides a row of the store and shows another,
\* the store holding rows of a load and of a follow delivery.
C11_Witness ==
    /\ search # <<>>
    /\ visible # <<>>
    /\ Len(visible) < Len(log_store)
    /\ result.kind = "completed"
    /\ \E i \in 1..Len(all_lines) : all_lines[i].src # 0

\* The severity argument of the command built from the widgets.
SeverityArg(u, idx, sn, follow) == Values(BuildCmd(u, idx, sn, follow), W_p)

\* C16: a change of the selected severity changes the severity argument of
\* the command built next and leaves the store and its visible rows as they
\* are (the filter asked again gives the same rows); a load passes the
\* severity selected at that time to the command.
C16_SeverityAtFetchOnly ==
    [][/\ prio_idx' # prio_idx
          => /\ \A follow \in BOOLEAN :
                    SeverityArg(unit', prio_idx', since', follow)
                        # SeverityArg(unit, prio_idx, since, follow)
             /\ log_store' = log_store
             /\ visible' = visible
             /\ Refilter(log_store', search') = visible
       /\ loads' # loads
          => Values(cmd'.argv, W_p)
                = IF prio_idx > 0 THEN {Str(prio_idx - 1)} ELSE {}]_vars

\* The severity selected is no longer the one the latest load asked for,
\* and the rows of that load are stored, some of them hidden by the search.
C16_Witness ==
    /\ loads > 0
    /\ prio_idx > 0
    /\ Values(cmd.argv, W_p) # {Str(prio_idx - 1)}
    /\ visible # <<>>
    /\ Len(visible) < Len(log_store)

\* Both the store and the raw lines are empty right after the reset that
\* _load_logs starts with.
EmptyAfterReset ==
    LET st == Cleared([store |-> log_store, lines |-> all_lines])
    IN  st.store = <<>> /\ st.lines = <<>>

\* C19 as stated: the raw lines have one entry per row of the store, in the
\* same order, and both are empty right after a reset.
C19_StoreAlignedWithRawLines ==
    /\ Len(all_lines) = Len(log_store)
    /\ \A i \in 1..Len(all_lines) : log_store[i] = Row(all_lines[i].text)
    /\ EmptyAfterReset

\* C19, amended: the raw lines have one entry per row of the store, in the
\* same order, except for the one error row that a failed load (a timeout,
\* a command that could not be started) puts first in the store, which has
\* no raw line; both are empty right after a reset.
C19_AlignedButErrorRow ==
    LET k == IF result.kind \in {"timeout", "spawnfail"} THEN 1 ELSE 0
    IN  /\ Len(log_store) = Len(all_lines) + k
        /\ k = 1 => log_store[1] = ErrorRow(result.kind)
        /\ \A i \in 1..Len(all_lines) : log_store[i + k] = Row(all_lines[i].text)
        /\ EmptyAfterReset

\* A load timed out and a line of the follow session was delivered after it.
C19_Witness ==
    /\ result.kind = "timeout"
    /\ Len(log_store) = 2
    /\ Len(all_lines) = 1
    /\ all_lines[1].src # 0

\* C18: once a session was stopped and a new one started, the reader thread
\* of the stopped session does not get past its check of the running flag
\* (it hands no further line to the main loop): the flag set for the new
\* session does not re-enable it.
C18_StoppedStaysStopped ==
    [][\A t \in Threads :
          (t < sessions /\ pc[t] = "check") => pc'[t] # "enqueue"]_vars

=============================================================================
